---------------------------- MODULE Spec2Model ----------------------------
(***************************************************************************)
(* A model of tinyserve's configuration helpers:                           *)
(*   - core/config/aliases.rs : normalize_key and the Aliases table with   *)
(*     its lazily built, OnceLock-cached index;                            *)
(*   - core/config/default.rs : the process-wide home override, the home   *)
(*     resolution and the default configs directory.                       *)
(*                                                                         *)
(* A string is a sequence of characters; a character is a one-token TLA+   *)
(* string ("U+0130" stands for the code point of that number).  A path is  *)
(* a sequence of components.  Option<T> is a set with at most one element. *)
(***************************************************************************)
EXTENDS Integers, Sequences, FiniteSets, TLC

None == {}
Some(v) == {v}
Unwrap(o) == CHOOSE v \in o : TRUE

(***************************************************************************)
(* Characters: what char::is_whitespace and char::to_lowercase do on the   *)
(* characters of the model.                                                *)
(***************************************************************************)

\* ASCII capitals of the model and their lowercase letters.
AsciiLower ==
    [c \in {"D", "I", "R", "O", "V", "E", "S", "F", "K"} |->
        CASE c = "D" -> "d" [] c = "I" -> "i" [] c = "R" -> "r"
          [] c = "O" -> "o" [] c = "V" -> "v" [] c = "E" -> "e"
          [] c = "S" -> "s" [] c = "F" -> "f" [] c = "K" -> "k"]

\* char::is_whitespace: the White_Space property.
IsWhitespace(c) == c \in {" ", "\t"}

\* char::to_lowercase: an iterator over one or more characters.  U+0130
\* (capital I with dot above) lowercases to two characters, "i" and the
\* combining dot U+0307; U+2102 (double-struck capital C) has no lowercase
\* mapping and lowercases to itself.
ToLowercase(c) ==
    IF c \in DOMAIN AsciiLower THEN <<AsciiLower[c]>>
    ELSE IF c = "U+0130" THEN <<"i", "U+0307">>
    ELSE <<c>>

\* The filter closure of normalize_key.
KeepChar(c) == ~IsWhitespace(c) /\ c # "-" /\ c # "_"

RECURSIVE FlatMapLower(_)
FlatMapLower(s) ==
    IF s = <<>> THEN <<>> ELSE ToLowercase(Head(s)) \o FlatMapLower(Tail(s))

RECURSIVE DropFirstSeparator(_)
DropFirstSeparator(s) ==
    IF s = <<>> THEN <<>>
    ELSE IF KeepChar(Head(s)) THEN <<Head(s)>> \o DropFirstSeparator(Tail(s))
    ELSE Tail(s)

\* A normalisation that removes only the first separator it meets.
normalize_key_first_only(s) == FlatMapLower(DropFirstSeparator(s))

\* A normalisation that forgets to drop '_'.
normalize_key_keeps_underscore(s) ==
    FlatMapLower(SelectSeq(s, LAMBDA c : ~IsWhitespace(c) /\ c # "-"))

\* normalize_key: filter, then flat_map to_lowercase, then collect.
normalize_key(s) == FlatMapLower(SelectSeq(s, KeepChar))

(***************************************************************************)
(* Bounds and input sets.                                                  *)
(***************************************************************************)
MaxLen == 3

Alphabet == {"d", "D", "4", "-", "_", " ", "\t", "U+0130", "U+2102"}

StrsUpTo(A, n) == UNION {[1..k -> A] : k \in 0..n}

\* The inputs of tests::normalize_key_drops_separators_and_lowercases.
TestSpellings ==
    { <<"d","i","r","O","v","e","r","r","i","d","e","s","4","0","4">>,
      <<"d","i","r","-","o","v","e","r","r","i","d","e","s","-","4","0","4">>,
      <<"D","I","R","_","O","V","E","R","R","I","D","E","S","_","4","0","4">>,
      <<" "," ","D","i","r"," "," ","_"," "," ","O","v","e","r","r","i","d","e","s",
        " ","-"," ","4","0","4"," "," ">> }

NormInputs == StrsUpTo(Alphabet, MaxLen) \cup TestSpellings

(***************************************************************************)
(* The Aliases table: inputs and pure helpers.                             *)
(***************************************************************************)
MaxAliases == 1
MaxCalls == 2

Threads == {"t1", "t2"}

\* Canonical keys, alias spellings and query spellings of the model.  The
\* alias "S_K" normalizes like the canonical key "sK"; the alias "f o" may
\* stand in both alias lists; "F_k", "s-k" and "FO" are spellings of "fK",
\* "sK" and "f o".
CanonPool == { <<"f", "K">>, <<"s", "K">> }
AliasPool == { <<"S", "_", "K">>, <<"f", " ", "o">> }
QueryPool == { <<"F", "_", "k">>, <<"s", "-", "k">>, <<"F", "O">> }

\* Every value of the `map` field: canonical key -> list of aliases.
AliasMaps ==
    UNION { [ks -> StrsUpTo(AliasPool, MaxAliases)] : ks \in SUBSET CanonPool }

\* The orders in which a HashMap holding the keys ks may iterate them.
IterOrders(ks) ==
    { o \in [1..Cardinality(ks) -> ks] :
        \A i, j \in 1..Cardinality(ks) : i # j => o[i] # o[j] }

\* HashMap::new, HashMap::insert (overwriting) and HashMap::get.
EmptyIdx == [k \in {} |-> <<>>]
\* An insert that keeps the value a key already has (first write wins).
IdxInsertKeepFirst(idx, k, v) ==
    [x \in DOMAIN idx \cup {k} |-> IF x \in DOMAIN idx THEN idx[x] ELSE v]

IdxInsert(idx, k, v) ==
    [x \in DOMAIN idx \cup {k} |-> IF x = k THEN v ELSE idx[x]]
IdxGet(idx, k) == IF k \in DOMAIN idx THEN Some(idx[k]) ELSE None

\* Alias insertions that forget to normalize the alias.
RECURSIVE AliasInsertsRaw(_, _)
AliasInsertsRaw(canonical, aliases) ==
    IF aliases = <<>> THEN <<>>
    ELSE <<[nk |-> Head(aliases), canonical |-> canonical]>>
         \o AliasInsertsRaw(canonical, Tail(aliases))

\* Alias insertions that store the alias spelling in place of the canonical
\* key.
RECURSIVE AliasInsertsToAlias(_, _)
AliasInsertsToAlias(canonical, aliases) ==
    IF aliases = <<>> THEN <<>>
    ELSE <<[nk |-> normalize_key(Head(aliases)), canonical |-> Head(aliases)]>>
         \o AliasInsertsToAlias(canonical, Tail(aliases))

\* The inner loop of the build closure: one insertion per alias, in order.
RECURSIVE AliasInserts(_, _)
AliasInserts(canonical, aliases) ==
    IF aliases = <<>> THEN <<>>
    ELSE <<[nk |-> normalize_key(Head(aliases)), canonical |-> canonical]>>
         \o AliasInserts(canonical, Tail(aliases))

\* A build loop that forgets the canonical key itself.
RECURSIVE InsertSeqAliasesOnly(_, _)
InsertSeqAliasesOnly(m, order) ==
    IF order = <<>> THEN <<>>
    ELSE AliasInserts(Head(order), m[Head(order)])
         \o InsertSeqAliasesOnly(m, Tail(order))

\* A build loop that forgets the alias lists.
RECURSIVE InsertSeqCanonicalOnly(_, _)
InsertSeqCanonicalOnly(m, order) ==
    IF order = <<>> THEN <<>>
    ELSE <<[nk |-> normalize_key(Head(order)), canonical |-> Head(order)]>>
         \o InsertSeqCanonicalOnly(m, Tail(order))

\* The insertions of the build closure of Aliases::index, in program order:
\* for each (canonical, aliases) of the map, the canonical key and then each
\* alias.
RECURSIVE InsertSeq(_, _)
InsertSeq(m, order) ==
    IF order = <<>> THEN <<>>
    ELSE <<[nk |-> normalize_key(Head(order)), canonical |-> Head(order)]>>
         \o AliasInserts(Head(order), m[Head(order)])
         \o InsertSeq(m, Tail(order))

\* A lookup that forgets to normalize the key.
ResolveLookupRaw(idx, key) == IdxGet(idx, key)

\* The body of Aliases::resolve once index() has returned idx.
ResolveLookup(idx, key) == IdxGet(idx, normalize_key(key))

(***************************************************************************)
(* The config locator: inputs and pure helpers.                            *)
(***************************************************************************)
MaxSets == 2
MaxHomeCalls == 3

\* Home directories handed to set_home_dir_override, and the OS's answer.
Homes == { <<"h1">>, <<"tmp", "h2">> }
OsHomes == { <<"home", "u">> }

HomeUndetermined == "failed to determine user home directory"
CreateFailed == "failed to create configs directory"

Ok(path) == [ok |-> TRUE, path |-> path, err |-> ""]
Err(msg) == [ok |-> FALSE, path |-> <<>>, err |-> msg]

\* A store that ignores a None argument.
OverrideAfterSetIgnoringNone(old, home) == IF home = None THEN old ELSE home

\* set_home_dir_override's store under the lock: `*guard = home`.
OverrideAfterSet(old, home) == home

\* A join that leaves out the "configs" component.
default_configs_dir_in_flat(home) == home \o <<".tinyserve">>

\* default_configs_dir_in: home.join(".tinyserve").join("configs").
default_configs_dir_in(home) == home \o <<".tinyserve", "configs">>

\* A computation that falls back to a relative path when there is no home.
default_configs_dir_from_or_relative(home) ==
    IF home = None THEN Ok(default_configs_dir_in(<<>>))
    ELSE Ok(default_configs_dir_in(Unwrap(home)))

\* default_configs_dir_from: the error if home is None, the path otherwise.
default_configs_dir_from(home) ==
    IF home = None THEN Err(HomeUndetermined)
    ELSE Ok(default_configs_dir_in(Unwrap(home)))

\* The path itself and every ancestor of it below the root.
Prefixes(path) == {SubSeq(path, 1, k) : k \in 1..Len(path)}

\* fs::create_dir_all: fails, creating nothing, when the path or an ancestor
\* is a file; otherwise the path and its missing ancestors become directories.
CreateDirAllOk(files, dir) == Prefixes(dir) \cap files = {}
\* fs::create_dir in place of create_dir_all: only the last component is made.
DirsAfterCreateDirLeafOnly(dirs, files, dir) ==
    IF CreateDirAllOk(files, dir) THEN dirs \cup {dir} ELSE dirs

DirsAfterCreateDirAll(dirs, files, dir) ==
    IF CreateDirAllOk(files, dir) THEN dirs \cup Prefixes(dir) ELSE dirs

\* ensure_configs_dir_in: create_dir_all with the error given its context.
ensure_configs_dir_in(files, dir) ==
    IF CreateDirAllOk(files, dir) THEN Ok(<<>>) ELSE Err(CreateFailed)

(***************************************************************************)
(* Alias documents: what from_reader can be handed.  A document is a run   *)
(* of bytes that is not UTF-8, text that is not JSON, or a JSON value.     *)
(***************************************************************************)
ReadError == "failed to read alias data"
ParseError == "invalid alias JSON"
OpenError == "failed to open alias file"

JString(s) == [t |-> "string", s |-> s]
JNumber == [t |-> "number"]
JArray(items) == [t |-> "array", items |-> items]
JObject(members) == [t |-> "object", members |-> members]
Member(key, value) == [key |-> key, value |-> value]

BadUtf8 == [kind |-> "bytes"]
Malformed == [kind |-> "text"]
JsonDoc(value) == [kind |-> "json", value |-> value]

\* {"fK": ["S_K"], "sK": []}
GoodDoc ==
    JsonDoc(JObject(<<Member(<<"f","K">>, JArray(<<JString(<<"S","_","K">>)>>)),
                      Member(<<"s","K">>, JArray(<<>>))>>))
\* {"fK": ["S_K"], "fK": ["f o"]}
DupDoc ==
    JsonDoc(JObject(<<Member(<<"f","K">>, JArray(<<JString(<<"S","_","K">>)>>)),
                      Member(<<"f","K">>, JArray(<<JString(<<"f"," ","o">>)>>))>>))
\* {}
EmptyObjectDoc == JsonDoc(JObject(<<>>))
\* {"fK": ["S_K"], "sK": 7}
NumberValueDoc ==
    JsonDoc(JObject(<<Member(<<"f","K">>, JArray(<<JString(<<"S","_","K">>)>>)),
                      Member(<<"s","K">>, JNumber)>>))
\* {"fK": ["S_K", 7]}
MixedListDoc ==
    JsonDoc(JObject(<<Member(<<"f","K">>,
                             JArray(<<JString(<<"S","_","K">>), JNumber>>))>>))
\* ["fK"]
ArrayDoc == JsonDoc(JArray(<<JString(<<"f","K">>)>>))

Docs == {BadUtf8, Malformed, GoodDoc, DupDoc, EmptyObjectDoc, NumberValueDoc,
         MixedListDoc, ArrayDoc}

\* What a constructor returns: a table whose index is unbuilt, or an error.
LoadOk(m) == [ok |-> TRUE, err |-> "", table |-> Some([map |-> m, idx |-> None])]
LoadErr(msg) == [ok |-> FALSE, err |-> msg, table |-> None]

\* Vec<String>: a JSON array all of whose items are strings.
IsStringList(v) ==
    /\ v.t = "array"
    /\ \A i \in 1..Len(v.items) : v.items[i].t = "string"

StringsOf(v) == [i \in 1..Len(v.items) |-> v.items[i].s]

\* The flattened HashMap<String, Vec<String>>: the members are inserted in
\* the order of the text, a repeated key overwriting the earlier value.
RECURSIVE MapOfMembers(_)
MapOfMembers(ms) ==
    IF ms = <<>> THEN EmptyIdx
    ELSE LET rest == MapOfMembers(SubSeq(ms, 1, Len(ms) - 1))
             last == ms[Len(ms)]
         IN  [k \in DOMAIN rest \cup {last.key} |->
                 IF k = last.key THEN StringsOf(last.value) ELSE rest[k]]

\* A deserializer that drops the members it cannot read.
RECURSIVE WellShapedMembers(_)
WellShapedMembers(ms) ==
    IF ms = <<>> THEN <<>>
    ELSE (IF IsStringList(Head(ms).value) THEN <<Head(ms)>> ELSE <<>>)
         \o WellShapedMembers(Tail(ms))

from_str_lenient(doc) ==
    IF doc.kind = "json" /\ doc.value.t = "object"
    THEN LoadOk(MapOfMembers(WellShapedMembers(doc.value.members)))
    ELSE LoadErr(ParseError)

\* serde_json::from_str::<Aliases>, then `parsed.idx = OnceLock::new()`.
from_str(doc) ==
    IF /\ doc.kind = "json"
       /\ doc.value.t = "object"
       /\ \A i \in 1..Len(doc.value.members) :
              IsStringList(doc.value.members[i].value)
    THEN LoadOk(MapOfMembers(doc.value.members))
    ELSE LoadErr(ParseError)

\* from_reader: read_to_string fails on bytes that are not UTF-8, then parse.
from_reader(doc) ==
    IF doc.kind = "bytes" THEN LoadErr(ReadError) ELSE from_str(doc)

\* from_path: File::open fails when the path is no file; a directory opens
\* but cannot be read; otherwise from_reader is given the file's contents.
from_path(dirs, files, data, path) ==
    IF path \in files THEN from_reader(data[path])
    ELSE IF path \in dirs THEN LoadErr(ReadError)
    ELSE LoadErr(OpenError)

\* user_home_dir run by one thread with no other thread about: the override
\* if there is one, else what the OS reports.
user_home_dir(override, os) == IF override # None THEN override ELSE os

\* A variant that reads <default dir>/aliases.json without ensuring the
\* directory.
from_default_location_no_ensure(override, os, dirs, files, data) ==
    LET dir == default_configs_dir_from(user_home_dir(override, os))
        file == dir.path \o <<"aliases.json">>
    IN  IF ~dir.ok
        THEN [res |-> LoadErr(dir.err), dirs |-> dirs, opened |-> {}]
        ELSE [res |-> from_path(dirs, files, data, file), dirs |-> dirs,
              opened |-> {file}]

\* from_default_location: ensure_default_configs_dir()?, then
\* from_path(dir.join("aliases.json")).  Gives the result, the directories
\* that exist afterwards and the paths it tried to open.
from_default_location(override, os, dirs, files, data) ==
    LET dir == default_configs_dir_from(user_home_dir(override, os))
        made == ensure_configs_dir_in(files, dir.path)
        after == DirsAfterCreateDirAll(dirs, files, dir.path)
        file == dir.path \o <<"aliases.json">>
    IN  IF ~dir.ok
        THEN [res |-> LoadErr(dir.err), dirs |-> dirs, opened |-> {}]
        ELSE IF ~made.ok
        THEN [res |-> LoadErr(made.err), dirs |-> after, opened |-> {}]
        ELSE [res |-> from_path(after, files, data, file), dirs |-> after,
              opened |-> {file}]

\* Where aliases.json lies under home directory h.
AliasesFile(h) == default_configs_dir_in(h) \o <<"aliases.json">>

MaxLoads == 2
EnsurePaths == {<<"tmp", "d">>, <<"a", "b">>, <<"h1", "x">>,
                default_configs_dir_in(<<"tmp", "h2">>)}
LoadPaths == {<<"h1">>, <<"tmp">>, <<"nope">>, AliasesFile(<<"tmp", "h2">>),
              AliasesFile(<<"home", "u">>)}

NoHomeRet == [kind |-> "none", home |-> None, res |-> Ok(<<>>)]

NoRet == [kind |-> "none", gen |-> 0, idx |-> EmptyIdx, opt |-> None]

VARIABLES
    nIn,      \* the string handed to normalize_key
    nOut,     \* Option: normalize_key(nIn)
    nOut2,    \* Option: normalize_key of nOut
    map,      \* Aliases.map: canonical key -> aliases
    iterOrder,\* the order in which this HashMap instance iterates its keys
    once,     \* the OnceLock's state: "incomplete", "running", "complete"
    idxVal,   \* the OnceLock's slot: Option of the index
    idxGen,   \* how many times the slot was written (the identity of its value)
    builds,   \* how many times the build closure was started
    apc,      \* per thread: where it is in index()/resolve()
    aop,      \* per thread: the call it is making
    lidx,     \* per thread: the closure's local `idx`
    lpos,     \* per thread: how many insertions the closure has made
    waited,   \* per thread: whether the current call blocked on the build
    aret,     \* per thread: what its last call returned
    acalls,   \* calls made so far
    seen,     \* history: <<normalized key, result>> of every resolve() return
    homeOverride, \* HOME_OVERRIDE: the Option<PathBuf> inside the mutex
    mutexHolder,  \* Option: the thread that holds the HOME_OVERRIDE mutex
    osHome,       \* Option: the home directory the OS reports
    fsDirs,       \* the paths that exist as directories
    fsFiles,      \* the paths that exist as files
    hpc,          \* per thread: where it is in its call
    hop,          \* per thread: the call it is making
    hhome,        \* per thread: what user_home_dir() gave it
    hret,         \* per thread: what its last call returned
    hepoch,       \* per thread: the value of `sets` when its call began
    hsnap,        \* per thread, history: HOME_OVERRIDE as it was when the
                  \* thread last acquired the mutex in this call
    sets,         \* how many set_home_dir_override calls have stored a value
    lastSet,      \* history: the argument of the latest such call
    hcalls,       \* calls made so far
    fileData,     \* the contents of the files: path -> document
    lhist,        \* history: the last two constructor / ensure calls made
    lcalls        \* such calls made so far

normVars == <<nIn, nOut, nOut2>>
tableVars == <<map, iterOrder, once, idxVal, idxGen, builds, apc, aop, lidx,
               lpos, waited, aret, acalls, seen>>
homeVars == <<homeOverride, mutexHolder, osHome, fsDirs, fsFiles, hpc, hop,
              hhome, hret, hepoch, hsnap, sets, lastSet, hcalls>>
loadVars == <<fileData, lhist, lcalls>>
vars == <<normVars, tableVars, homeVars, loadVars>>

(***************************************************************************)
(* The normaliser on its own.                                              *)
(***************************************************************************)
\* The state of a freshly constructed table no thread has touched.
TableFresh ==
    /\ once = "incomplete"
    /\ idxVal = None
    /\ idxGen = 0
    /\ builds = 0
    /\ apc = [t \in Threads |-> "idle"]
    /\ aop = [t \in Threads |-> [op |-> "none", key |-> <<>>]]
    /\ lidx = [t \in Threads |-> EmptyIdx]
    /\ lpos = [t \in Threads |-> 0]
    /\ waited = [t \in Threads |-> FALSE]
    /\ aret = [t \in Threads |-> NoRet]
    /\ acalls = 0
    /\ seen = {}

TableIdle ==
    /\ map = EmptyIdx
    /\ iterOrder = <<>>
    /\ TableFresh

\* The locator before any call: HOME_OVERRIDE is Mutex::new(None), unlocked.
HomeFresh ==
    /\ homeOverride = None
    /\ mutexHolder = None
    /\ hpc = [t \in Threads |-> "idle"]
    /\ hop = [t \in Threads |-> [op |-> "none", arg |-> None]]
    /\ hhome = [t \in Threads |-> None]
    /\ hret = [t \in Threads |-> NoHomeRet]
    /\ hepoch = [t \in Threads |-> 0]
    /\ hsnap = [t \in Threads |-> None]
    /\ sets = 0
    /\ lastSet = None
    /\ hcalls = 0

HomeIdle ==
    /\ osHome = None
    /\ fsDirs = {}
    /\ fsFiles = {}
    /\ HomeFresh

NormIdle ==
    /\ nIn = <<>>
    /\ nOut = None
    /\ nOut2 = None

\* No constructor has run and no file's contents matter.
LoadIdle ==
    /\ fileData = EmptyIdx
    /\ lhist = <<>>
    /\ lcalls = 0

InitNorm ==
    /\ nIn \in NormInputs
    /\ nOut = None
    /\ nOut2 = None
    /\ TableIdle
    /\ HomeIdle
    /\ LoadIdle

Normalize ==
    /\ nOut = None
    /\ nOut' = Some(normalize_key(nIn))
    /\ UNCHANGED <<nIn, nOut2, tableVars, homeVars, loadVars>>

Renormalize ==
    /\ nOut # None
    /\ nOut2 = None
    /\ nOut2' = Some(normalize_key(Unwrap(nOut)))
    /\ UNCHANGED <<nIn, nOut, tableVars, homeVars, loadVars>>

NextNorm == Normalize \/ Renormalize

SpecNorm == InitNorm /\ [][NextNorm]_vars

(***************************************************************************)
(* The Aliases table: index() and resolve() called from several threads.   *)
(***************************************************************************)

\* After Aliases::from_reader: a parsed map and a fresh OnceLock.
InitAlias ==
    /\ NormIdle
    /\ map \in AliasMaps
    /\ iterOrder \in IterOrders(DOMAIN map)
    /\ TableFresh
    /\ HomeIdle
    /\ LoadIdle

\* A thread calls index().
CallIndex(t) ==
    /\ apc[t] = "idle"
    /\ acalls < MaxCalls
    /\ acalls' = acalls + 1
    /\ aop' = [aop EXCEPT ![t] = [op |-> "index", key |-> <<>>]]
    /\ apc' = [apc EXCEPT ![t] = "enter"]
    /\ waited' = [waited EXCEPT ![t] = FALSE]
    /\ aret' = [aret EXCEPT ![t] = NoRet]
    /\ UNCHANGED <<loadVars, normVars, homeVars, map, iterOrder, once, idxVal,
                   idxGen, builds, lidx, lpos, seen>>

\* A thread calls resolve(key), which calls index().
CallResolve(t) ==
    /\ apc[t] = "idle"
    /\ acalls < MaxCalls
    /\ \E key \in QueryPool :
          aop' = [aop EXCEPT ![t] = [op |-> "resolve", key |-> key]]
    /\ acalls' = acalls + 1
    /\ apc' = [apc EXCEPT ![t] = "enter"]
    /\ waited' = [waited EXCEPT ![t] = FALSE]
    /\ aret' = [aret EXCEPT ![t] = NoRet]
    /\ UNCHANGED <<loadVars, normVars, homeVars, map, iterOrder, once, idxVal,
                   idxGen, builds, lidx, lpos, seen>>

\* get_or_init on a lock whose closure has not started rebuilds nothing; a
\* variant that claims the build without marking the lock as running.
OnceBeginUnmarked(t) ==
    /\ apc[t] = "enter"
    /\ once = "incomplete"
    /\ builds' = builds + 1
    /\ lidx' = [lidx EXCEPT ![t] = EmptyIdx]
    /\ lpos' = [lpos EXCEPT ![t] = 0]
    /\ apc' = [apc EXCEPT ![t] = "build"]
    /\ UNCHANGED <<loadVars, normVars, homeVars, map, iterOrder, once, idxVal,
                   idxGen, aop, waited, aret, acalls, seen>>

\* get_or_init, lock incomplete: this thread becomes the one that runs the
\* closure, which starts with `let mut idx = HashMap::new()`.
OnceBegin(t) ==
    /\ apc[t] = "enter"
    /\ once = "incomplete"
    /\ once' = "running"
    /\ builds' = builds + 1
    /\ lidx' = [lidx EXCEPT ![t] = EmptyIdx]
    /\ lpos' = [lpos EXCEPT ![t] = 0]
    /\ apc' = [apc EXCEPT ![t] = "build"]
    /\ UNCHANGED <<loadVars, normVars, homeVars, map, iterOrder, idxVal,
                   idxGen, aop, waited, aret, acalls, seen>>

\* get_or_init, another thread is running the closure: block.
OnceBlock(t) ==
    /\ apc[t] = "enter"
    /\ once = "running"
    /\ apc' = [apc EXCEPT ![t] = "wait"]
    /\ waited' = [waited EXCEPT ![t] = TRUE]
    /\ UNCHANGED <<loadVars, normVars, homeVars, map, iterOrder, once, idxVal,
                   idxGen, builds, aop, lidx, lpos, aret, acalls, seen>>

\* A blocked thread is woken once the lock is complete.
OnceWake(t) ==
    /\ apc[t] = "wait"
    /\ once = "complete"
    /\ apc' = [apc EXCEPT ![t] = "got"]
    /\ UNCHANGED <<loadVars, normVars, homeVars, map, iterOrder, once, idxVal,
                   idxGen, builds, aop, lidx, lpos, waited, aret, acalls,
                   seen>>

\* A get_or_init that runs the closure again although the lock is complete.
OnceFastRebuild(t) ==
    /\ apc[t] = "enter"
    /\ once = "complete"
    /\ builds' = builds + 1
    /\ lidx' = [lidx EXCEPT ![t] = EmptyIdx]
    /\ lpos' = [lpos EXCEPT ![t] = 0]
    /\ apc' = [apc EXCEPT ![t] = "build"]
    /\ UNCHANGED <<loadVars, normVars, homeVars, map, iterOrder, once, idxVal,
                   idxGen, aop, waited, aret, acalls, seen>>

\* get_or_init, lock complete: the stored value is returned at once.
OnceFast(t) ==
    /\ apc[t] = "enter"
    /\ once = "complete"
    /\ apc' = [apc EXCEPT ![t] = "got"]
    /\ UNCHANGED <<loadVars, normVars, homeVars, map, iterOrder, once, idxVal,
                   idxGen, builds, aop, lidx, lpos, waited, aret, acalls,
                   seen>>

\* One idx.insert of the closure's loops.
BuildStep(t) ==
    /\ apc[t] = "build"
    /\ lpos[t] < Len(InsertSeq(map, iterOrder))
    /\ LET ins == InsertSeq(map, iterOrder)[lpos[t] + 1]
       IN  lidx' = [lidx EXCEPT ![t] = IdxInsert(@, ins.nk, ins.canonical)]
    /\ lpos' = [lpos EXCEPT ![t] = @ + 1]
    /\ UNCHANGED <<loadVars, normVars, homeVars, map, iterOrder, once, idxVal,
                   idxGen, builds, apc, aop, waited, aret, acalls, seen>>

\* The closure returns `idx`: the lock stores it and becomes complete.
BuildStore(t) ==
    /\ apc[t] = "build"
    /\ lpos[t] = Len(InsertSeq(map, iterOrder))
    /\ idxVal' = Some(lidx[t])
    /\ idxGen' = idxGen + 1
    /\ once' = "complete"
    /\ lidx' = [lidx EXCEPT ![t] = EmptyIdx]
    /\ lpos' = [lpos EXCEPT ![t] = 0]
    /\ apc' = [apc EXCEPT ![t] = "got"]
    /\ UNCHANGED <<loadVars, normVars, homeVars, map, iterOrder, builds, aop,
                   waited, aret, acalls, seen>>

\* A return that throws the built index away, so that the next call builds
\* it afresh.
ReturnForgetting(t) ==
    /\ apc[t] = "got"
    /\ aret' = [aret EXCEPT ![t] =
                   [kind |-> aop[t].op, gen |-> idxGen,
                    idx |-> IF aop[t].op = "index" THEN Unwrap(idxVal) ELSE EmptyIdx,
                    opt |-> IF aop[t].op = "index" THEN None
                            ELSE ResolveLookup(Unwrap(idxVal), aop[t].key)]]
    /\ seen' = seen
    /\ idxVal' = None
    /\ once' = "incomplete"
    /\ apc' = [apc EXCEPT ![t] = "idle"]
    /\ UNCHANGED <<loadVars, normVars, homeVars, map, iterOrder, idxGen,
                   builds, aop, lidx, lpos, waited, acalls>>

\* index() returns the reference; resolve() looks the key up and returns.
Return(t) ==
    /\ apc[t] = "got"
    /\ IF aop[t].op = "index"
       THEN /\ aret' = [aret EXCEPT ![t] = [kind |-> "index", gen |-> idxGen,
                                            idx |-> Unwrap(idxVal), opt |-> None]]
            /\ seen' = seen
       ELSE LET r == ResolveLookup(Unwrap(idxVal), aop[t].key)
            IN  /\ aret' = [aret EXCEPT ![t] = [kind |-> "resolve", gen |-> idxGen,
                                                idx |-> EmptyIdx, opt |-> r]]
                /\ seen' = seen \cup {<<normalize_key(aop[t].key), r>>}
    /\ apc' = [apc EXCEPT ![t] = "idle"]
    /\ UNCHANGED <<loadVars, normVars, homeVars, map, iterOrder, once, idxVal,
                   idxGen, builds, aop, lidx, lpos, waited, acalls>>

\* The steps a thread takes inside a call (the scheduler runs them).
ThreadStep(t) ==
    \/ OnceBegin(t)
    \/ OnceBlock(t)
    \/ OnceWake(t)
    \/ OnceFast(t)
    \/ BuildStep(t)
    \/ BuildStore(t)
    \/ Return(t)

NextAlias ==
    \E t \in Threads : CallIndex(t) \/ CallResolve(t) \/ ThreadStep(t)

SpecAlias == InitAlias /\ [][NextAlias]_vars

\* The scheduler lets every thread that can take a step take it eventually.
FairAlias == SpecAlias /\ \A t \in Threads : WF_vars(ThreadStep(t))

(***************************************************************************)
(* The config locator: set_home_dir_override, user_home_dir,               *)
(* default_configs_dir and ensure_default_configs_dir called from several  *)
(* threads.                                                                *)
(***************************************************************************)

\* The OS may or may not report a home; "/h1" may exist as a plain file.
InitHome ==
    /\ NormIdle
    /\ TableIdle
    /\ osHome \in {None} \cup {Some(h) : h \in OsHomes}
    /\ fsDirs = {<<"tmp">>}
    /\ fsFiles \in {{}, {<<"h1">>}}
    /\ HomeFresh
    /\ LoadIdle

BeginCall(t, op, arg) ==
    /\ hpc[t] = "idle"
    /\ hcalls < MaxHomeCalls
    /\ hcalls' = hcalls + 1
    /\ hop' = [hop EXCEPT ![t] = [op |-> op, arg |-> arg]]
    /\ hpc' = [hpc EXCEPT ![t] = "lock"]
    /\ hhome' = [hhome EXCEPT ![t] = None]
    /\ hret' = [hret EXCEPT ![t] = NoHomeRet]
    /\ hepoch' = [hepoch EXCEPT ![t] = sets]
    /\ hsnap' = [hsnap EXCEPT ![t] = None]
    /\ UNCHANGED <<loadVars, normVars, tableVars, homeOverride, mutexHolder,
                   osHome, fsDirs, fsFiles, sets, lastSet>>

\* A thread calls set_home_dir_override(home).
CallSet(t) ==
    /\ sets + Cardinality({u \in Threads : hpc[u] # "idle" /\ hop[u].op = "set"})
          < MaxSets
    /\ \E home \in {None} \cup {Some(h) : h \in Homes} : BeginCall(t, "set", home)

\* A thread calls user_home_dir().
CallHome(t) == BeginCall(t, "home", None)

\* A thread calls default_configs_dir().
CallDefault(t) == BeginCall(t, "default", None)

\* A thread calls ensure_default_configs_dir().
CallEnsure(t) == BeginCall(t, "ensure", None)

\* A lock() that does not wait for the holder to release.
LockUnguarded(t) ==
    /\ hpc[t] = "lock"
    /\ mutexHolder' = Some(t)
    /\ hsnap' = [hsnap EXCEPT ![t] = homeOverride]
    /\ hpc' = [hpc EXCEPT ![t] = "locked"]
    /\ UNCHANGED <<loadVars, normVars, tableVars, homeOverride, osHome, fsDirs,
                   fsFiles, hop, hhome, hret, hepoch, sets, lastSet, hcalls>>

\* lock.lock(): blocks until the mutex is free, then holds it.
Lock(t) ==
    /\ hpc[t] = "lock"
    /\ mutexHolder = None
    /\ mutexHolder' = Some(t)
    /\ hsnap' = [hsnap EXCEPT ![t] = homeOverride]
    /\ hpc' = [hpc EXCEPT ![t] = "locked"]
    /\ UNCHANGED <<loadVars, normVars, tableVars, homeOverride, osHome,
                   fsDirs, fsFiles, hop, hhome, hret, hepoch, sets, lastSet,
                   hcalls>>

\* A setter that also creates the directory it is given.
SetStoreCreating(t) ==
    /\ hpc[t] = "locked"
    /\ hop[t].op = "set"
    /\ homeOverride' = OverrideAfterSet(homeOverride, hop[t].arg)
    /\ mutexHolder' = None
    /\ sets' = sets + 1
    /\ lastSet' = hop[t].arg
    /\ fsDirs' = (IF hop[t].arg = None THEN fsDirs
                  ELSE DirsAfterCreateDirAll(fsDirs, fsFiles, Unwrap(hop[t].arg)))
    /\ hret' = [hret EXCEPT ![t] = [kind |-> "set", home |-> None, res |-> Ok(<<>>)]]
    /\ hpc' = [hpc EXCEPT ![t] = "idle"]
    /\ UNCHANGED <<loadVars, normVars, tableVars, hsnap, osHome, fsFiles, hop,
                   hhome, hepoch, hcalls>>

\* set_home_dir_override: store the argument, drop the guard, return.
SetStore(t) ==
    /\ hpc[t] = "locked"
    /\ hop[t].op = "set"
    /\ homeOverride' = OverrideAfterSet(homeOverride, hop[t].arg)
    /\ mutexHolder' = None
    /\ sets' = sets + 1
    /\ lastSet' = hop[t].arg
    /\ hret' = [hret EXCEPT ![t] = [kind |-> "set", home |-> None, res |-> Ok(<<>>)]]
    /\ hpc' = [hpc EXCEPT ![t] = "idle"]
    /\ UNCHANGED <<loadVars, normVars, tableVars, hsnap, osHome, fsDirs,
                   fsFiles, hop, hhome, hepoch, hcalls>>

\* user_home_dir, override present: clone it and return (the guard drops).
ReadOverrideSome(t) ==
    /\ hpc[t] = "locked"
    /\ hop[t].op # "set"
    /\ homeOverride # None
    /\ hhome' = [hhome EXCEPT ![t] = homeOverride]
    /\ mutexHolder' = None
    /\ hpc' = [hpc EXCEPT ![t] = "have"]
    /\ UNCHANGED <<loadVars, normVars, tableVars, hsnap, homeOverride, osHome,
                   fsDirs, fsFiles, hop, hret, hepoch, sets, lastSet, hcalls>>

\* user_home_dir, no override: drop(guard) and go on to ask the OS.
ReadOverrideNone(t) ==
    /\ hpc[t] = "locked"
    /\ hop[t].op # "set"
    /\ homeOverride = None
    /\ mutexHolder' = None
    /\ hpc' = [hpc EXCEPT ![t] = "os"]
    /\ UNCHANGED <<loadVars, normVars, tableVars, hsnap, homeOverride, osHome,
                   fsDirs, fsFiles, hop, hhome, hret, hepoch, sets, lastSet,
                   hcalls>>

\* user_home_dir: directories::UserDirs::new().map(home_dir).
QueryOs(t) ==
    /\ hpc[t] = "os"
    /\ hhome' = [hhome EXCEPT ![t] = osHome]
    /\ hpc' = [hpc EXCEPT ![t] = "have"]
    /\ UNCHANGED <<loadVars, normVars, tableVars, hsnap, homeOverride,
                   mutexHolder, osHome, fsDirs, fsFiles, hop, hret, hepoch,
                   sets, lastSet, hcalls>>

\* user_home_dir returns to its caller.
ReturnHome(t) ==
    /\ hpc[t] = "have"
    /\ hop[t].op = "home"
    /\ hret' = [hret EXCEPT ![t] = [kind |-> "home", home |-> hhome[t],
                                    res |-> Ok(<<>>)]]
    /\ hpc' = [hpc EXCEPT ![t] = "idle"]
    /\ UNCHANGED <<loadVars, normVars, tableVars, hsnap, homeOverride,
                   mutexHolder, osHome, fsDirs, fsFiles, hop, hhome, hepoch,
                   sets, lastSet, hcalls>>

\* default_configs_dir: default_configs_dir_from(user_home_dir()).
ReturnDefault(t) ==
    /\ hpc[t] = "have"
    /\ hop[t].op = "default"
    /\ hret' = [hret EXCEPT ![t] = [kind |-> "default", home |-> hhome[t],
                                    res |-> default_configs_dir_from(hhome[t])]]
    /\ hpc' = [hpc EXCEPT ![t] = "idle"]
    /\ UNCHANGED <<loadVars, normVars, tableVars, hsnap, homeOverride,
                   mutexHolder, osHome, fsDirs, fsFiles, hop, hhome, hepoch,
                   sets, lastSet, hcalls>>

\* An ensure that creates the directory under the home it resolved but
\* returns the path computed from a second look at the override.
ReturnEnsureRereading(t) ==
    /\ hpc[t] = "have"
    /\ hop[t].op = "ensure"
    /\ LET dir == default_configs_dir_from(hhome[t])
           made == ensure_configs_dir_in(fsFiles, dir.path)
           again == default_configs_dir_from(user_home_dir(homeOverride, osHome))
       IN  IF ~dir.ok
           THEN /\ hret' = [hret EXCEPT ![t] = [kind |-> "ensure",
                                                home |-> hhome[t], res |-> dir]]
                /\ fsDirs' = fsDirs
           ELSE /\ fsDirs' = DirsAfterCreateDirAll(fsDirs, fsFiles, dir.path)
                /\ hret' = [hret EXCEPT ![t] =
                               [kind |-> "ensure", home |-> hhome[t],
                                res |-> IF made.ok THEN again ELSE made]]
    /\ hpc' = [hpc EXCEPT ![t] = "idle"]
    /\ UNCHANGED <<loadVars, normVars, tableVars, hsnap, homeOverride,
                   mutexHolder, osHome, fsFiles, hop, hhome, hepoch, sets,
                   lastSet, hcalls>>

\* ensure_default_configs_dir: ensure_default_configs_dir_from(user_home_dir()),
\* which returns early when the path cannot be computed or created.
ReturnEnsure(t) ==
    /\ hpc[t] = "have"
    /\ hop[t].op = "ensure"
    /\ LET dir == default_configs_dir_from(hhome[t])
           made == ensure_configs_dir_in(fsFiles, dir.path)
       IN  IF ~dir.ok
           THEN /\ hret' = [hret EXCEPT ![t] = [kind |-> "ensure",
                                                home |-> hhome[t], res |-> dir]]
                /\ fsDirs' = fsDirs
           ELSE /\ fsDirs' = DirsAfterCreateDirAll(fsDirs, fsFiles, dir.path)
                /\ hret' = [hret EXCEPT ![t] =
                               [kind |-> "ensure", home |-> hhome[t],
                                res |-> IF made.ok THEN dir ELSE made]]
    /\ hpc' = [hpc EXCEPT ![t] = "idle"]
    /\ UNCHANGED <<loadVars, normVars, tableVars, hsnap, homeOverride,
                   mutexHolder, osHome, fsFiles, hop, hhome, hepoch, sets,
                   lastSet, hcalls>>

HomeStep(t) ==
    \/ Lock(t)
    \/ SetStore(t)
    \/ ReadOverrideSome(t)
    \/ ReadOverrideNone(t)
    \/ QueryOs(t)
    \/ ReturnHome(t)
    \/ ReturnDefault(t)
    \/ ReturnEnsure(t)

NextHome ==
    \E t \in Threads :
        CallSet(t) \/ CallHome(t) \/ CallDefault(t) \/ CallEnsure(t) \/ HomeStep(t)

SpecHome == InitHome /\ [][NextHome]_vars

\* The scheduler runs every thread that can take a step.
FairHome == SpecHome /\ \A t \in Threads : WF_vars(HomeStep(t))

(***************************************************************************)
(* The constructors and ensure_configs_dir_in, called one after another by *)
(* one thread on a file system that may already hold an aliases.json.      *)
(***************************************************************************)

\* The locator's threads are all idle and nobody holds the mutex.
HomeQuiet ==
    /\ mutexHolder = None
    /\ hpc = [t \in Threads |-> "idle"]
    /\ hop = [t \in Threads |-> [op |-> "none", arg |-> None]]
    /\ hhome = [t \in Threads |-> None]
    /\ hret = [t \in Threads |-> NoHomeRet]
    /\ hepoch = [t \in Threads |-> 0]
    /\ hsnap = [t \in Threads |-> None]
    /\ hcalls = 0

\* An override may have been set before; the file system is bare, or has
\* "/h1" as a plain file, or has /tmp/h2/.tinyserve/configs/aliases.json
\* with some document in it.
InitLoad ==
    /\ NormIdle
    /\ TableIdle
    /\ HomeQuiet
    /\ homeOverride \in {None} \cup {Some(h) : h \in Homes}
    /\ lastSet = homeOverride
    /\ sets = (IF homeOverride = None THEN 0 ELSE 1)
    /\ osHome \in {None} \cup {Some(h) : h \in OsHomes}
    /\ \/ /\ fsDirs = {<<"tmp">>}
          /\ fsFiles = {}
          /\ fileData = EmptyIdx
       \/ /\ fsDirs = {<<"tmp">>}
          /\ fsFiles = {<<"h1">>}
          /\ fileData = [p \in fsFiles |-> GoodDoc]
       \/ /\ fsDirs = Prefixes(default_configs_dir_in(<<"tmp", "h2">>))
          /\ fsFiles = {AliasesFile(<<"tmp", "h2">>)}
          /\ \E d \in Docs : fileData = [p \in fsFiles |-> d]
    /\ lhist = <<>>
    /\ lcalls = 0

\* A call returns: it joins the history, which keeps the last two calls.
Record(op, arg, res, dirs, opened) ==
    LET call == [op |-> op, arg |-> arg, res |-> res, dirs |-> dirs,
                 opened |-> opened]
    IN  /\ lcalls < MaxLoads
        /\ lcalls' = lcalls + 1
        /\ fsDirs' = dirs
        /\ lhist' = (IF lhist = <<>> THEN <<call>>
                     ELSE <<lhist[Len(lhist)], call>>)
        /\ UNCHANGED <<normVars, tableVars, hsnap, homeOverride, mutexHolder,
                       osHome,
                       fsFiles, hpc, hop, hhome, hret, hepoch, sets, lastSet,
                       hcalls, fileData>>

\* ensure_configs_dir_in(dir).
EnsureIn ==
    \E dir \in EnsurePaths :
        Record("ensure_in", dir, ensure_configs_dir_in(fsFiles, dir),
               DirsAfterCreateDirAll(fsDirs, fsFiles, dir), {})

\* Aliases::from_reader(doc).
FromReader ==
    \E doc \in Docs : Record("from_reader", doc, from_reader(doc), fsDirs, {})

\* Aliases::from_path(path).
FromPath ==
    \E path \in LoadPaths :
        Record("from_path", path, from_path(fsDirs, fsFiles, fileData, path),
               fsDirs, {path})

\* Aliases::from_default_location().
FromDefaultLocation ==
    LET r == from_default_location(homeOverride, osHome, fsDirs, fsFiles,
                                   fileData)
    IN  Record("from_default_location", None, r.res, r.dirs, r.opened)

NextLoad == EnsureIn \/ FromReader \/ FromPath \/ FromDefaultLocation

SpecLoad == InitLoad /\ [][NextLoad]_vars

(***************************************************************************)
(* Properties of normalize_key (checked under SpecNorm).                   *)
(***************************************************************************)

Range(s) == {s[i] : i \in 1..Len(s)}

\* char::is_uppercase on the characters of the model: the Uppercase property.
IsUppercase(c) == c \in DOMAIN AsciiLower \cup {"U+0130", "U+2102"}

\* The lowercase of the characters of s that are no separator, in the order
\* in which they stand in s, computed position by position.
RECURSIVE LowerOfKeptFrom(_, _)
LowerOfKeptFrom(s, i) ==
    IF i > Len(s) THEN <<>>
    ELSE (IF IsWhitespace(s[i]) \/ s[i] = "-" \/ s[i] = "_"
          THEN <<>> ELSE ToLowercase(s[i]))
         \o LowerOfKeptFrom(s, i + 1)

Diroverrides404 ==
    <<"d","i","r","o","v","e","r","r","i","d","e","s","4","0","4">>

\* C2: normalize is idempotent: normalize(normalize(s)) = normalize(s) for
\* every input string s.
C2_NormalizeIdempotent ==
    nOut2 # None => nOut2 = nOut

\* C2 witness: a string with a capital and a separator was normalized twice.
C2_Witness ==
    /\ nOut2 # None
    /\ "D" \in Range(nIn)
    /\ "_" \in Range(nIn)
    /\ nOut # Some(nIn)

\* C3 as stated: normalize(s) holds no whitespace, no '-', no '_' and no
\* uppercase character, and is the lowercase of the remaining characters of
\* s in their order; the four spellings of the test give "diroverrides404".
C3_Original_NoUppercase ==
    nOut # None =>
        LET out == Unwrap(nOut)
        IN  /\ \A c \in Range(out) :
                 ~IsWhitespace(c) /\ c # "-" /\ c # "_" /\ ~IsUppercase(c)
            /\ out = LowerOfKeptFrom(nIn, 1)
            /\ nIn \in TestSpellings => out = Diroverrides404

\* C3 as amended: normalize(s) holds no whitespace, no '-', no '_' and no
\* character that lowercasing changes (an uppercase character without a
\* lowercase mapping passes through), and is the lowercase of the remaining
\* characters of s in their order; the four spellings of the test give
\* "diroverrides404".
C3_NormalizeShape ==
    nOut # None =>
        LET out == Unwrap(nOut)
        IN  /\ \A c \in Range(out) :
                 /\ ~IsWhitespace(c) /\ c # "-" /\ c # "_"
                 /\ IsUppercase(c) => c = "U+2102"
                 /\ c \notin DOMAIN AsciiLower /\ c # "U+0130"
            /\ out = LowerOfKeptFrom(nIn, 1)
            /\ nIn \in TestSpellings => out = Diroverrides404

\* C3 witness: the spaced spelling of the test was normalized.
C3_Witness ==
    /\ nOut = Some(Diroverrides404)
    /\ Len(nIn) > Len(Diroverrides404)
    /\ " " \in Range(nIn)

(***************************************************************************)
(* Properties of the Aliases table (checked under SpecAlias / FairAlias).  *)
(***************************************************************************)

\* The normalized forms of canonical key c: its own and those of its aliases.
NormForms(c) ==
    {normalize_key(c)} \cup {normalize_key(map[c][i]) : i \in 1..Len(map[c])}

AllNormForms == UNION {NormForms(c) : c \in DOMAIN map}

\* The canonical keys one of whose spellings has the normalized form nk.
Owners(nk) == {c \in DOMAIN map : nk \in NormForms(c)}

\* Thread t has returned from resolve() / index() and made no call since.
ReturnedResolve(t) == apc[t] = "idle" /\ aret[t].kind = "resolve"
ReturnedIndex(t) == apc[t] = "idle" /\ aret[t].kind = "index"

\* The index a complete run of the build's insertions yields.
RECURSIVE ApplyInserts(_, _)
ApplyInserts(idx, ins) ==
    IF ins = <<>> THEN idx
    ELSE ApplyInserts(
             [x \in DOMAIN idx \cup {Head(ins).nk} |->
                 IF x = Head(ins).nk THEN Head(ins).canonical ELSE idx[x]],
             Tail(ins))

\* C1 as stated: every spelling that normalizes like canonical key c or like
\* one of c's aliases resolves to c.
C1_Original_ResolvesToItsKey ==
    \A t \in Threads :
        ReturnedResolve(t) =>
            \A c \in Owners(normalize_key(aop[t].key)) : aret[t].opt = Some(c)

\* C1 as amended: every spelling that normalizes like canonical key c or like
\* one of c's aliases resolves to a canonical key one of whose spellings has
\* that normalized form; that key is c when no other canonical key has one.
C1_ResolvesToAnOwner ==
    \A t \in Threads :
        (ReturnedResolve(t) /\ Owners(normalize_key(aop[t].key)) # {}) =>
            /\ aret[t].opt # None
            /\ Unwrap(aret[t].opt) \in Owners(normalize_key(aop[t].key))

\* C1 witness: "F_k", which is neither a key nor an alias, resolved to "fK".
C1_Witness ==
    \E t \in Threads :
        /\ ReturnedResolve(t)
        /\ aop[t].key = <<"F", "_", "k">>
        /\ Owners(normalize_key(aop[t].key)) = {<<"f", "K">>}
        /\ aret[t].opt = Some(<<"f", "K">>)

\* C4: resolve returns nothing exactly when the normalized key is the
\* normalized form of no canonical key and no alias, otherwise a canonical
\* key; the table stays built and usable whatever the key.
C4_ResolveTotal ==
    \A t \in Threads :
        ReturnedResolve(t) =>
            /\ aret[t].opt = None <=> normalize_key(aop[t].key) \notin AllNormForms
            /\ aret[t].opt # None => Unwrap(aret[t].opt) \in DOMAIN map
            /\ once = "complete"
            /\ idxVal # None

\* C4 witness: an unknown spelling got nothing from a table that has entries.
C4_Witness ==
    \E t \in Threads :
        /\ ReturnedResolve(t)
        /\ aret[t].opt = None
        /\ DOMAIN map # {}

\* C5: the index starts unbuilt, is built by the first index()/resolve() call
\* and at most once; every index() call returns the one built structure.
C5_BuiltOnce ==
    /\ acalls = 0 => (once = "incomplete" /\ idxVal = None)
    /\ builds <= 1
    /\ idxGen <= 1
    /\ \A t \in Threads :
          aret[t].kind # "none" => (once = "complete" /\ idxVal # None)
    /\ \A t \in Threads :
          ReturnedIndex(t) =>
              /\ aret[t].gen = 1
              /\ aret[t].gen = idxGen
              /\ aret[t].idx = Unwrap(idxVal)

\* C5 witness: two index() calls returned, neither of which had to wait for
\* the build: the later one found the index built.
C5_Witness ==
    \E t, u \in Threads :
        /\ t # u
        /\ ReturnedIndex(t) /\ ReturnedIndex(u)
        /\ ~waited[t] /\ ~waited[u]
        /\ DOMAIN map # {}

C6_Safety ==
    /\ builds <= 1
    /\ Cardinality({t \in Threads : apc[t] = "build"}) <= 1
    /\ idxVal # None => Unwrap(idxVal) = ApplyInserts(EmptyIdx, InsertSeq(map, iterOrder))
    /\ \A t \in Threads :
          apc[t] = "got" => (once = "complete" /\ idxVal # None)
    /\ \A t \in Threads :
          ReturnedIndex(t) =>
              aret[t].idx = ApplyInserts(EmptyIdx, InsertSeq(map, iterOrder))
    /\ \A t, u \in Threads :
          (ReturnedIndex(t) /\ ReturnedIndex(u)) => aret[t] = aret[u]

\* C6: under every interleaving of concurrent first calls the build closure
\* runs once, no caller gets a partly built index, all callers get the same
\* complete index, and every blocked caller proceeds once the build is done:
\* no thread stays inside a call for ever, so each is idle again and again.
C6_SingleBuildUnderContention ==
    /\ []C6_Safety
    /\ \A t \in Threads : []<>(apc[t] = "idle")

\* C6 witness: a call that blocked on another thread's build has returned.
C6_Witness ==
    \E t \in Threads :
        /\ waited[t]
        /\ apc[t] = "idle"
        /\ aret[t].kind # "none"
        /\ builds = 1
        /\ DOMAIN map # {}

\* C7: every result resolve() has returned equals the index entry for the
\* normalized key, also when two canonical keys collide; so two spellings
\* with one normalized form always resolve alike on one instance.
C7_ResolveMatchesIndex ==
    /\ \A e \in seen : idxVal # None /\ e[2] = IdxGet(Unwrap(idxVal), e[1])
    /\ \A e, f \in seen : e[1] = f[1] => e[2] = f[2]

\* C7 witness: a spelling whose normalized form two canonical keys share has
\* been resolved.
C7_Witness ==
    \E e \in seen :
        /\ Cardinality(Owners(e[1])) = 2
        /\ e[2] # None
        /\ acalls = 2

\* C8: a built index has an entry for the normalized form of every canonical
\* key and of every alias, and no other entry.
C8_IndexDomain ==
    idxVal # None => DOMAIN Unwrap(idxVal) = AllNormForms

\* C8 witness: an index over two canonical keys with aliases is built.
C8_Witness ==
    /\ idxVal # None
    /\ Cardinality(DOMAIN map) = 2
    /\ \A c \in DOMAIN map : map[c] # <<>>
    /\ Cardinality(DOMAIN Unwrap(idxVal)) = 3

\* The position in the iteration order of the last (canonical, aliases) pair
\* one of whose spellings has the normalized form nk.
LastOwnerPos(nk) ==
    CHOOSE i \in 1..Len(iterOrder) :
        /\ nk \in NormForms(iterOrder[i])
        /\ \A j \in (i + 1)..Len(iterOrder) : nk \notin NormForms(iterOrder[j])

\* C16: index construction is last-write-wins: the built index maps every
\* normalized form n to the canonical key of the last processed pair whose
\* canonical key or one of whose aliases normalizes to n.
C16_LastWriteWins ==
    idxVal # None =>
        \A nk \in DOMAIN Unwrap(idxVal) :
            /\ Owners(nk) # {}
            /\ Unwrap(idxVal)[nk] = iterOrder[LastOwnerPos(nk)]

\* C16 witness: "sK" was processed first and "fK", whose alias "S_K" has the
\* normalized form of "sK", second; the built index maps "sk" to "fK".
C16_Witness ==
    /\ idxVal # None
    /\ iterOrder = << <<"s", "K">>, <<"f", "K">> >>
    /\ Owners(<<"s", "k">>) = {<<"s", "K">>, <<"f", "K">>}
    /\ Unwrap(idxVal)[<<"s", "k">>] = <<"f", "K">>

C17_Steps ==
    /\ map' = map
    /\ iterOrder' = iterOrder
    /\ idxVal # None => (idxVal' = idxVal /\ idxGen' = idxGen)

C17_BuiltFromMap ==
    idxVal # None =>
        /\ DOMAIN Unwrap(idxVal) = AllNormForms
        /\ \A nk \in AllNormForms :
               Unwrap(idxVal)[nk] =
                   ApplyInserts(EmptyIdx, InsertSeq(map, iterOrder))[nk]

\* C17: the map is immutable for the table's lifetime: no step of index() or
\* resolve() changes it, and once the index is built no later step changes
\* or replaces the index; so in every reachable state a built index is the
\* build result over the current map.
C17_TableFrame ==
    /\ [][C17_Steps]_vars
    /\ []C17_BuiltFromMap

\* C17 witness: the index of a table with entries was built by one call, a
\* second call has returned too, and the slot was written once.
C17_Witness ==
    /\ idxVal # None
    /\ idxGen = 1
    /\ DOMAIN map # {}
    /\ acalls = 2
    /\ \A t \in Threads : apc[t] = "idle" /\ aret[t].kind # "none"
    /\ \E t \in Threads : aret[t].kind = "resolve" /\ aret[t].opt # None

ReturnedUndisturbed(t, k) ==
    hpc[t] = "idle" /\ hret[t].kind = k /\ hepoch[t] = sets

C10_NoneMeansUndetermined ==
    \A t \in Threads :
        ((ReturnedUndisturbed(t, "default") \/ ReturnedUndisturbed(t, "ensure"))
            /\ sets > 0 /\ lastSet = None) =>
            hret[t].res = Err(HomeUndetermined)

\* Thread t takes the step on which its call of operation op returns.
Returns(t, op) ==
    hpc[t] # "idle" /\ hop[t].op = op /\ hpc'[t] = "idle"

C11_Fails ==
    \A t \in Threads :
        ((ReturnedUndisturbed(t, "default") \/ ReturnedUndisturbed(t, "ensure"))
            /\ lastSet = None /\ osHome = None) =>
            hret[t].res = Err(HomeUndetermined)

C11_FailingEnsureCreatesNothing ==
    \A t \in Threads :
        (Returns(t, "ensure") /\ hret'[t].res = Err(HomeUndetermined)) =>
            (fsDirs' = fsDirs /\ fsFiles' = fsFiles)

\* C11: with no override in force and no home from the OS,
\* default_configs_dir() and ensure_default_configs_dir() both fail with
\* "failed to determine user home directory", and the step on which
\* ensure_default_configs_dir() fails so changes nothing in the file system.
C11_MissingHomeFails ==
    /\ []C11_Fails
    /\ [][C11_FailingEnsureCreatesNothing]_vars

\* C11 witness: ensure_default_configs_dir() has failed for want of a home
\* and the file system holds what it held at the start.
C11_Witness ==
    \E t \in Threads :
        /\ ReturnedUndisturbed(t, "ensure")
        /\ lastSet = None
        /\ osHome = None
        /\ hret[t].res = Err(HomeUndetermined)
        /\ fsDirs = {<<"tmp">>}

\* The home in force: the latest stored override if it is a path, else what
\* the OS reports.
HomeInForce == IF lastSet # None THEN lastSet ELSE osHome

\* <home in force>/.tinyserve/configs, written out component by component.
ConfigsUnderHomeInForce == Unwrap(HomeInForce) \o <<".tinyserve", "configs">>

\* C13 as stated: with a determinable home H, ensure_default_configs_dir()
\* returns exactly the path default_configs_dir() returns,
\* H/.tinyserve/configs, and on return that path exists as a directory;
\* calling it again returns the same path and succeeds.
C13_Original_EnsureAlwaysSucceeds ==
    \A t \in Threads :
        (ReturnedUndisturbed(t, "ensure") /\ HomeInForce # None) =>
            /\ hret[t].res = Ok(ConfigsUnderHomeInForce)
            /\ ConfigsUnderHomeInForce \in fsDirs
            /\ \A u \in Threads :
                   ReturnedUndisturbed(u, "default") => hret[u].res = hret[t].res

\* C13 as amended: with a determinable home H under which no component of
\* H/.tinyserve/configs is a plain file, ensure_default_configs_dir() returns
\* exactly the path default_configs_dir() returns, H/.tinyserve/configs, and
\* on return that path exists as a directory; calling it again returns the
\* same path and succeeds.  When a component is a plain file it fails with
\* the directory-creation error and the path does not exist.
C13_EnsureReturnsExistingDefault ==
    \A t \in Threads :
        (ReturnedUndisturbed(t, "ensure") /\ HomeInForce # None) =>
            IF \A k \in 1..Len(ConfigsUnderHomeInForce) :
                   SubSeq(ConfigsUnderHomeInForce, 1, k) \notin fsFiles
            THEN /\ hret[t].res = Ok(ConfigsUnderHomeInForce)
                 /\ ConfigsUnderHomeInForce \in fsDirs
                 /\ \A u \in Threads :
                        ReturnedUndisturbed(u, "default") =>
                            hret[u].res = hret[t].res
            ELSE /\ hret[t].res = Err(CreateFailed)
                 /\ ConfigsUnderHomeInForce \notin fsDirs

\* C13 witness: with the override "/tmp/h2" in force two threads have called
\* ensure_default_configs_dir(); both got /tmp/h2/.tinyserve/configs, which
\* exists.
C13_Witness ==
    /\ lastSet = Some(<<"tmp", "h2">>)
    /\ \A t \in Threads :
          /\ ReturnedUndisturbed(t, "ensure")
          /\ hret[t].res = Ok(<<"tmp", "h2", ".tinyserve", "configs">>)
    /\ <<"tmp", "h2", ".tinyserve", "configs">> \in fsDirs

C18_Steps ==
    /\ fsFiles' = fsFiles
    /\ fsDirs' # fsDirs => \E t \in Threads : Returns(t, "ensure")
    /\ \A t \in Threads :
          (hpc[t] # "idle" /\ hop[t].op \in {"set", "home", "default"}
              /\ hpc'[t] # hpc[t]) =>
              fsDirs' = fsDirs

\* C18: path computation has no file-system effect: no step of
\* set_home_dir_override, user_home_dir or default_configs_dir changes the
\* file system (setting the override to a path that does not exist creates
\* nothing); directories appear only on the step on which
\* ensure_default_configs_dir returns.
C18_PathComputationIsPure ==
    [][C18_Steps]_vars

\* C18 witness: the override was set to "/tmp/h2", which does not exist,
\* default_configs_dir() returned the path under it, and the file system
\* still holds "/tmp" alone.
C18_Witness ==
    \E t \in Threads :
        /\ ReturnedUndisturbed(t, "default")
        /\ lastSet = Some(<<"tmp", "h2">>)
        /\ hret[t].res = Ok(<<"tmp", "h2", ".tinyserve", "configs">>)
        /\ fsDirs = {<<"tmp">>}

\* The threads inside the critical section.
InCritical == {t \in Threads : hpc[t] = "locked"}

C19_Safety ==
    /\ Cardinality(InCritical) <= 1
    /\ \A t \in Threads : t \in InCritical <=> mutexHolder = Some(t)
    /\ \A t \in Threads : hpc[t] \in {"os", "have", "idle", "lock"} =>
                              mutexHolder # Some(t)
    /\ \A t \in Threads :
          (hpc[t] = "idle" /\ hret[t].kind = "home") =>
              hret[t].home = (IF hsnap[t] # None THEN hsnap[t] ELSE osHome)

C19_Steps ==
    \A t \in Threads :
        hpc'[t] # hpc[t] =>
            /\ homeOverride' # homeOverride => mutexHolder = Some(t)
            /\ hpc[t] = "os" => mutexHolder # Some(t)
            /\ fsDirs' # fsDirs => mutexHolder # Some(t)

\* C19: the home override is accessed only inside a single mutex: at most
\* one thread holds it at a time and only its holder reads or writes the
\* override, it is not held while the OS home query or a file-system
\* operation runs, every call releases it (no thread holds it for ever), and
\* each user_home_dir() returns the override as it was when the call held
\* the mutex or, if it was unset then, the OS home.
C19_OverrideUnderMutex ==
    /\ []C19_Safety
    /\ [][C19_Steps]_vars
    /\ \A t \in Threads : []<>(mutexHolder # Some(t))

\* C19 witness: user_home_dir() read the override "/h1" in its critical
\* section and returned it; the override has since been set to "/tmp/h2".
C19_Witness ==
    \E t \in Threads :
        /\ hpc[t] = "idle"
        /\ hret[t].kind = "home"
        /\ hsnap[t] = Some(<<"h1">>)
        /\ hret[t].home = Some(<<"h1">>)
        /\ homeOverride = Some(<<"tmp", "h2">>)
        /\ hepoch[t] < sets
        /\ mutexHolder = None

C20_Returned ==
    \A t \in Threads :
        (hpc[t] = "idle" /\ hret[t].kind = "ensure" /\ hret[t].res.ok) =>
            /\ hret[t].home # None
            /\ hret[t].home = (IF hsnap[t] # None THEN hsnap[t] ELSE osHome)
            /\ hret[t].res.path = Unwrap(hret[t].home) \o <<".tinyserve", "configs">>
            /\ hret[t].res.path \in fsDirs

C20_Steps ==
    \A t \in Threads :
        (Returns(t, "ensure") /\ hret'[t].res.ok) =>
            LET p == hret'[t].res.path
            IN  fsDirs' = fsDirs \cup {SubSeq(p, 1, k) : k \in 1..Len(p)}

\* C20: ensure_default_configs_dir() resolves the home once per call, in the
\* one critical section of the call, so whatever another thread does to the
\* override meanwhile, the directory the call creates is the very path it
\* returns, which then exists.  (A default_configs_dir() call and a separate
\* ensure_default_configs_dir() call may return different paths when the
\* override changes between their critical sections: the witness.)
C20_EnsureResolvesOnce ==
    /\ []C20_Returned
    /\ [][C20_Steps]_vars

\* C20 witness: ensure_default_configs_dir() found no override, the override
\* was then set to "/tmp/h2", and the call created and returned the path
\* under the OS home; default_configs_dir() has returned the path under
\* "/tmp/h2", which does not exist.
C20_Witness ==
    \E t, u \in Threads :
        /\ hpc[u] = "idle" /\ hret[u].kind = "ensure"
        /\ hepoch[u] < sets
        /\ hret[u].res = Ok(<<"home", "u", ".tinyserve", "configs">>)
        /\ hret[u].res.path \in fsDirs
        /\ ReturnedUndisturbed(t, "default")
        /\ hret[t].res = Ok(<<"tmp", "h2", ".tinyserve", "configs">>)
        /\ hret[t].res.path \notin fsDirs

(***************************************************************************)
(* Properties of the constructors and of ensure_configs_dir_in (checked    *)
(* under SpecLoad).                                                        *)
(***************************************************************************)

\* No component of path p stands in the way as a plain file.
Creatable(p) == \A k \in 1..Len(p) : SubSeq(p, 1, k) \notin fsFiles

\* The last two calls were both ensure_configs_dir_in(p) for one path p.
EnsuredTwice ==
    /\ Len(lhist) = 2
    /\ lhist[1].op = "ensure_in"
    /\ lhist[2].op = "ensure_in"
    /\ lhist[1].arg = lhist[2].arg

\* C12: ensure_configs_dir_in is idempotent: for every path p that can be
\* created a call succeeds and leaves p and all its ancestors existing as
\* directories, and a second call right after it succeeds too and leaves the
\* file system exactly as the first call left it.
C12_EnsureIdempotent ==
    /\ \A i \in 1..Len(lhist) :
          (lhist[i].op = "ensure_in" /\ Creatable(lhist[i].arg)) =>
              /\ lhist[i].res = Ok(<<>>)
              /\ \A k \in 1..Len(lhist[i].arg) :
                     SubSeq(lhist[i].arg, 1, k) \in lhist[i].dirs
    /\ (EnsuredTwice /\ Creatable(lhist[1].arg)) =>
          /\ lhist[2].res = Ok(<<>>)
          /\ lhist[2].dirs = lhist[1].dirs
          /\ fsDirs = lhist[1].dirs

\* C12 witness: ensure_configs_dir_in("/a/b") was called twice in a row where
\* neither "/a" nor "/a/b" existed before; both calls succeeded.
C12_Witness ==
    /\ EnsuredTwice
    /\ lhist[1].arg = <<"a", "b">>
    /\ lhist[1].res = Ok(<<>>)
    /\ lhist[2].res = Ok(<<>>)
    /\ {<<"a">>, <<"a", "b">>} \subseteq fsDirs
    /\ <<"tmp">> \in fsDirs

\* The home from_default_location finds, the directory it is to ensure and
\* the file it is to read, each written out from the state.
LoadHome == IF homeOverride # None THEN homeOverride ELSE osHome
LoadDir == Unwrap(LoadHome) \o <<".tinyserve", "configs">>
LoadFile == LoadDir \o <<"aliases.json">>

\* What from_path(LoadFile) gives once LoadDir exists.
FromPathOfLoadFile ==
    IF LoadFile \in fsFiles THEN from_reader(fileData[LoadFile])
    ELSE LoadErr(OpenError)

\* Call c of the history is from_default_location(), and if a call follows
\* it in the history that is from_path(LoadFile), it returned like c.
DefaultLocationCall(i) ==
    /\ i \in 1..Len(lhist)
    /\ lhist[i].op = "from_default_location"

SameAsFromPath(i) ==
    (i < Len(lhist) /\ lhist[i + 1].op = "from_path"
        /\ lhist[i + 1].arg = LoadFile) =>
        lhist[i + 1].res = lhist[i].res

NoHomeNoRead(i) ==
    /\ lhist[i].res = LoadErr(HomeUndetermined)
    /\ lhist[i].opened = {}

\* C14 as stated: with a determinable home, after from_default_location()
\* the default config directory exists and the result equals
\* from_path(<dir>/aliases.json), success or failure alike (a missing
\* aliases.json is an error, never an empty table); with an undeterminable
\* home it fails with the home-undetermined error without reading any file.
C14_Original_DirectoryAlwaysExists ==
    \A i \in 1..2 :
        DefaultLocationCall(i) =>
            IF LoadHome = None THEN NoHomeNoRead(i)
            ELSE /\ LoadDir \in lhist[i].dirs
                 /\ lhist[i].res = FromPathOfLoadFile
                 /\ SameAsFromPath(i)

\* C14 as amended: with a determinable home under which the default config
\* directory can be created, after from_default_location() the directory
\* exists and the result equals from_path(<dir>/aliases.json), success or
\* failure alike (a missing aliases.json is an error, never an empty table);
\* when the directory cannot be created it fails with the directory-creation
\* error without reading any file; with an undeterminable home it fails with
\* the home-undetermined error without reading any file.
C14_FromDefaultLocation ==
    \A i \in 1..2 :
        DefaultLocationCall(i) =>
            IF LoadHome = None THEN NoHomeNoRead(i)
            ELSE IF Creatable(LoadDir)
            THEN /\ LoadDir \in lhist[i].dirs
                 /\ lhist[i].res = FromPathOfLoadFile
                 /\ lhist[i].opened = {LoadFile}
                 /\ LoadFile \notin fsFiles => ~lhist[i].res.ok
                 /\ SameAsFromPath(i)
            ELSE /\ lhist[i].res = LoadErr(CreateFailed)
                 /\ lhist[i].opened = {}
                 /\ LoadDir \notin lhist[i].dirs

\* C14 witness: with the OS home "/home/u" and nothing on disk,
\* from_default_location() created /home/u/.tinyserve/configs and failed for
\* want of aliases.json, as the from_path call after it did.
C14_Witness ==
    /\ Len(lhist) = 2
    /\ DefaultLocationCall(1)
    /\ LoadHome = Some(<<"home", "u">>)
    /\ <<"home", "u", ".tinyserve", "configs">> \in lhist[1].dirs
    /\ lhist[1].res = LoadErr(OpenError)
    /\ lhist[2].op = "from_path"
    /\ lhist[2].arg = <<"home", "u", ".tinyserve", "configs", "aliases.json">>
    /\ lhist[2].res = lhist[1].res

\* The documents that are an object mapping strings to lists of strings, and
\* the table each of them stands for.
WellFormedDocs == {GoodDoc, DupDoc, EmptyObjectDoc}

TableOf(doc) ==
    CASE doc = GoodDoc ->
             (<<"f", "K">> :> << <<"S", "_", "K">> >>) @@ (<<"s", "K">> :> <<>>)
      [] doc = DupDoc -> (<<"f", "K">> :> << <<"f", " ", "o">> >>)
      [] doc = EmptyObjectDoc -> EmptyIdx

FreshTable(m) == [map |-> m, idx |-> None]

\* A result is a whole table with its index unbuilt, or an error and no table.
AllOrNothing(res) ==
    IF res.ok THEN res.table # None /\ res.err = ""
    ELSE res.table = None /\ res.err # ""

\* Every from_path call in the history failed with an I/O error when its
\* path is no file, and otherwise returned what from_reader returns for the
\* file's contents: the table of the contents, or from_reader's error, which
\* a from_reader call that follows on the same contents returns too.
FromPathDelegates ==
    \A i \in 1..Len(lhist) :
        lhist[i].op = "from_path" =>
            IF lhist[i].arg \notin fsFiles
            THEN lhist[i].res \in {LoadErr(OpenError), LoadErr(ReadError)}
            ELSE LET doc == fileData[lhist[i].arg]
                 IN  /\ lhist[i].res.ok <=> doc \in WellFormedDocs
                     /\ lhist[i].res.ok =>
                            lhist[i].res.table = Some(FreshTable(TableOf(doc)))
                     /\ (i < Len(lhist) /\ lhist[i + 1].op = "from_reader"
                            /\ lhist[i + 1].arg = doc) =>
                            lhist[i + 1].res = lhist[i].res

ResultsAllOrNothing ==
    \A i \in 1..Len(lhist) :
        lhist[i].op \in {"from_reader", "from_path", "from_default_location"} =>
            AllOrNothing(lhist[i].res)

\* C15 as stated: from_reader yields a table only if the data is a
\* well-formed object mapping strings to lists of strings and otherwise fails
\* with a parse error; from_path fails with an I/O error if the path cannot
\* be opened or read and otherwise returns exactly what from_reader returns
\* for the file's contents; no failure is replaced by a default or partly
\* filled table.
C15_Original_OtherwiseParseError ==
    /\ \A i \in 1..Len(lhist) :
          lhist[i].op = "from_reader" =>
              IF lhist[i].arg \in WellFormedDocs
              THEN lhist[i].res = LoadOk(TableOf(lhist[i].arg))
              ELSE lhist[i].res = LoadErr(ParseError)
    /\ FromPathDelegates
    /\ ResultsAllOrNothing

\* C15 as amended: from_reader yields a table only if the data is a
\* well-formed object mapping strings to lists of strings; otherwise it fails,
\* with the read (I/O) error when the data is not UTF-8 text and with a parse
\* error when it is; from_path fails with an I/O error if the path cannot be
\* opened or read and otherwise returns exactly what from_reader returns for
\* the file's contents; no failure is replaced by a default or partly filled
\* table.
C15_ConstructionAllOrNothing ==
    /\ \A i \in 1..Len(lhist) :
          lhist[i].op = "from_reader" =>
              IF lhist[i].arg \in WellFormedDocs
              THEN lhist[i].res = LoadOk(TableOf(lhist[i].arg))
              ELSE IF lhist[i].arg = BadUtf8
              THEN lhist[i].res = LoadErr(ReadError)
              ELSE lhist[i].res = LoadErr(ParseError)
    /\ FromPathDelegates
    /\ ResultsAllOrNothing

\* C15 witness: aliases.json holds {"fK": ["S_K"], "sK": 7}; from_path on it
\* and from_reader on its contents both failed with the parse error.
C15_Witness ==
    /\ Len(lhist) = 2
    /\ lhist[1].op = "from_path"
    /\ lhist[1].arg \in fsFiles
    /\ fileData[lhist[1].arg] = NumberValueDoc
    /\ lhist[1].res = LoadErr(ParseError)
    /\ lhist[2].op = "from_reader"
    /\ lhist[2].arg = NumberValueDoc
    /\ lhist[2].res = LoadErr(ParseError)

=============================================================================
